---- MODULE Spec2Model ----
(***************************************************************************)
(* The login-stash store of edge-core-js: saveStash, removeStash and       *)
(* getJsonFiles over a disklet folder, with the redux events they          *)
(* dispatch.                                                               *)
(*                                                                         *)
(* JavaScript values are tagged records [k |-> kind, v |-> content]; a JS  *)
(* string is a sequence of one-character strings, a JS object a function   *)
(* from property names to values, a JS array a sequence of values.  A file *)
(* text is the sequence of JSON tokens JSON.stringify emits.               *)
(***************************************************************************)
EXTENDS Integers, Sequences, FiniteSets, TLC

(***************************************************************************)
(* JavaScript values                                                       *)
(***************************************************************************)
Str(s)    == [k |-> "string", v |-> s]
Null      == [k |-> "null", v |-> <<>>]
Undefined == [k |-> "undefined", v |-> <<>>]
Obj(f)    == [k |-> "object", v |-> f]
Arr(a)    == [k |-> "array", v |-> a]

\* value.key : undefined for a missing property and for a non-object
\* primitive.  (null.key and undefined.key throw: see IsNullish.)  A
\* number is the sequence of its digits.
Get(value, key) ==
    IF value.k = "object" /\ key \in DOMAIN value.v THEN value.v[key]
    ELSE Undefined

\* value == null   (true of null and of undefined)
IsNullish(value) == value.k \in {"null", "undefined"}

Range(s) == {s[i] : i \in DOMAIN s}

RECURSIVE Rep(_, _)
Rep(c, n) == IF n = 0 THEN <<>> ELSE <<c>> \o Rep(c, n - 1)

(***************************************************************************)
(* base64.parse (RFC 4648, strict) and base58.stringify (base-x)           *)
(***************************************************************************)
Base64Chars ==
    << "A","B","C","D","E","F","G","H","I","J","K","L","M","N","O","P",
       "Q","R","S","T","U","V","W","X","Y","Z","a","b","c","d","e","f",
       "g","h","i","j","k","l","m","n","o","p","q","r","s","t","u","v",
       "w","x","y","z","0","1","2","3","4","5","6","7","8","9","+","/" >>

Base58Chars ==
    << "1","2","3","4","5","6","7","8","9","A","B","C","D","E","F","G",
       "H","J","K","L","M","N","P","Q","R","S","T","U","V","W","X","Y",
       "Z","a","b","c","d","e","f","g","h","i","j","k","m","n","o","p",
       "q","r","s","t","u","v","w","x","y","z" >>

Base64Code == [c \in Range(Base64Chars) |->
                 CHOOSE i \in 0..63 : Base64Chars[i + 1] = c]

RECURSIVE Pow2(_)
Pow2(n) == IF n = 0 THEN 1 ELSE 2 * Pow2(n - 1)

\* The text without its trailing "=" padding.
RECURSIVE StripPadding(_)
StripPadding(text) ==
    IF Len(text) > 0 /\ text[Len(text)] = "="
    THEN StripPadding(SubSeq(text, 1, Len(text) - 1))
    ELSE text

\* Six bits enter the buffer per character; a byte leaves it whenever
\* eight are waiting.
RECURSIVE Base64Loop(_, _, _, _, _)
Base64Loop(text, i, buffer, bits, out) ==
    IF i > Len(text) THEN out
    ELSE LET buf == buffer * 64 + Base64Code[text[i]]
             nb  == bits + 6
         IN  IF nb >= 8
             THEN Base64Loop(text, i + 1, buf % Pow2(nb - 8), nb - 8,
                             Append(out, buf \div Pow2(nb - 8)))
             ELSE Base64Loop(text, i + 1, buf, nb, out)

base64_decode(text) == Base64Loop(StripPadding(text), 1, 0, 0, <<>>)

\* One source byte folded into the little-endian base-58 digits:
\* carry += digits[j] << 8; digits[j] = carry % 58; carry = carry / 58.
RECURSIVE Base58Carry(_, _, _)
Base58Carry(digits, j, carry) ==
    IF j > Len(digits)
    THEN IF carry > 0
         THEN Base58Carry(Append(digits, carry % 58), j + 1, carry \div 58)
         ELSE digits
    ELSE LET c == carry + digits[j] * 256
         IN  Base58Carry([digits EXCEPT ![j] = c % 58], j + 1, c \div 58)

RECURSIVE Base58Digits(_, _, _)
Base58Digits(source, i, digits) ==
    IF i > Len(source) THEN digits
    ELSE Base58Digits(source, i + 1, Base58Carry(digits, 1, source[i]))

\* The leading zero bytes, each written as the leader "1" (the last byte
\* is left to the digits).
RECURSIVE Base58Leaders(_, _)
Base58Leaders(source, n) ==
    IF n < Len(source) /\ source[n] = 0
    THEN <<"1">> \o Base58Leaders(source, n + 1)
    ELSE <<>>

base58_encode(source) ==
    IF Len(source) = 0 THEN <<>>
    ELSE LET digits == Base58Digits(source, 1, <<0>>)
         IN  Base58Leaders(source, 1) \o
             [q \in 1..Len(digits) |->
                 Base58Chars[digits[Len(digits) + 1 - q] + 1]]

(***************************************************************************)
(* JSON.stringify and JSON.parse                                           *)
(***************************************************************************)
\* A token has the shape of a value: its kind, and the characters of a
\* string or number literal.
Tok(t)       == [k |-> t, v |-> <<>>]
StrTok(s)    == [k |-> "string", v |-> s]
NumTok(n)    == [k |-> "number", v |-> n]

appIdKey    == <<"a","p","p","I","d">>
loginIdKey  == <<"l","o","g","i","n","I","d">>
usernameKey == <<"u","s","e","r","n","a","m","e">>
otpKeyKey   == <<"o","t","p","K","e","y">>
childrenKey == <<"c","h","i","l","d","r","e","n">>
passwordKey == <<"p","a","s","s","w","o","r","d">>
pinKey      == <<"p","i","n">>
otpOption   == <<"o","t","p">>

\* The order in which the properties of an object are written.
KeyOrder == <<appIdKey, loginIdKey, usernameKey, otpKeyKey, childrenKey,
              passwordKey, pinKey>>

\* JSON.stringify of a value that is not undefined.  A property holding
\* undefined is left out of its object; undefined in an array is written
\* as null.
RECURSIVE JSON_stringify(_)
RECURSIVE StringifyMembers(_, _, _)
RECURSIVE StringifyElements(_, _)

StringifyMembers(obj, i, first) ==
    IF i > Len(KeyOrder) THEN <<>>
    ELSE LET key == KeyOrder[i]
         IN  IF key \notin DOMAIN obj \/ obj[key].k = "undefined"
             THEN StringifyMembers(obj, i + 1, first)
             ELSE (IF first THEN <<>> ELSE <<Tok(",")>>)
                  \o <<StrTok(key), Tok(":")>> \o JSON_stringify(obj[key])
                  \o StringifyMembers(obj, i + 1, FALSE)

StringifyElements(arr, i) ==
    IF i > Len(arr) THEN <<>>
    ELSE (IF i = 1 THEN <<>> ELSE <<Tok(",")>>)
         \o (IF arr[i].k = "undefined" THEN <<Tok("null")>>
             ELSE JSON_stringify(arr[i]))
         \o StringifyElements(arr, i + 1)

JSON_stringify(value) ==
    CASE value.k = "string" -> <<StrTok(value.v)>>
      [] value.k = "number" -> <<NumTok(value.v)>>
      [] value.k = "null"   -> <<Tok("null")>>
      [] value.k = "object" ->
            <<Tok("{")>> \o StringifyMembers(value.v, 1, TRUE) \o <<Tok("}")>>
      [] value.k = "array"  ->
            <<Tok("[")>> \o StringifyElements(value.v, 1) \o <<Tok("]")>>

\* A parse step answers [ok, value, next]: the value read and the index of
\* the first token after it, or ok = FALSE for a syntax error.
ParseFail == [ok |-> FALSE, value |-> Null, next |-> 0]
Parsed(value, next) == [ok |-> TRUE, value |-> value, next |-> next]

TokAt(text, i) == IF i \in DOMAIN text THEN text[i].k ELSE "end"

\* obj with key set to value (a repeated key keeps its last value).
WithProperty(obj, key, value) ==
    [x \in (DOMAIN obj) \cup {key} |-> IF x = key THEN value ELSE obj[x]]

RECURSIVE ParseValue(_, _)
RECURSIVE ParseMembers(_, _, _)
RECURSIVE ParseElements(_, _, _)

\* i is at a property name; obj holds the members read so far.
ParseMembers(text, i, obj) ==
    IF TokAt(text, i) # "string" \/ TokAt(text, i + 1) # ":" THEN ParseFail
    ELSE LET r == ParseValue(text, i + 2)
         IN  IF ~r.ok THEN ParseFail
             ELSE LET o == WithProperty(obj, text[i].v, r.value)
                  IN  CASE TokAt(text, r.next) = "," ->
                              ParseMembers(text, r.next + 1, o)
                        [] TokAt(text, r.next) = "}" ->
                              Parsed(Obj(o), r.next + 1)
                        [] OTHER -> ParseFail

\* i is at an element; arr holds the elements read so far.
ParseElements(text, i, arr) ==
    LET r == ParseValue(text, i)
    IN  IF ~r.ok THEN ParseFail
        ELSE CASE TokAt(text, r.next) = "," ->
                     ParseElements(text, r.next + 1, Append(arr, r.value))
               [] TokAt(text, r.next) = "]" ->
                     Parsed(Arr(Append(arr, r.value)), r.next + 1)
               [] OTHER -> ParseFail

ParseValue(text, i) ==
    CASE TokAt(text, i) = "string" -> Parsed(Str(text[i].v), i + 1)
      [] TokAt(text, i) = "number" -> Parsed([k |-> "number", v |-> text[i].v], i + 1)
      [] TokAt(text, i) = "null"   -> Parsed(Null, i + 1)
      [] TokAt(text, i) = "{" ->
            IF TokAt(text, i + 1) = "}" THEN Parsed(Obj(<<>>), i + 2)
            ELSE ParseMembers(text, i + 1, <<>>)
      [] TokAt(text, i) = "[" ->
            IF TokAt(text, i + 1) = "]" THEN Parsed(Arr(<<>>), i + 2)
            ELSE ParseElements(text, i + 1, <<>>)
      [] OTHER -> ParseFail

\* JSON.parse: the value of the whole text, or ok = FALSE where it throws
\* a SyntaxError.
JSON_parse(text) ==
    LET r == ParseValue(text, 1)
    IN  IF r.ok /\ r.next = Len(text) + 1 THEN r ELSE ParseFail

(***************************************************************************)
(* fixUsername: the username case-folded and trimmed of whitespace         *)
(***************************************************************************)
UpperChars ==
    << "A","B","C","D","E","F","G","H","I","J","K","L","M","N","O","P",
       "Q","R","S","T","U","V","W","X","Y","Z" >>
LowerChars ==
    << "a","b","c","d","e","f","g","h","i","j","k","l","m","n","o","p",
       "q","r","s","t","u","v","w","x","y","z" >>

toLowerCase(c) ==
    IF c \in Range(UpperChars)
    THEN LowerChars[CHOOSE i \in DOMAIN UpperChars : UpperChars[i] = c]
    ELSE c

IsSpace(c) == c \in {" ", "\t", "\n", "\r"}

RECURSIVE TrimLeft(_)
TrimLeft(s) ==
    IF Len(s) > 0 /\ IsSpace(s[1]) THEN TrimLeft(Tail(s)) ELSE s

RECURSIVE TrimRight(_)
TrimRight(s) ==
    IF Len(s) > 0 /\ IsSpace(s[Len(s)])
    THEN TrimRight(SubSeq(s, 1, Len(s) - 1))
    ELSE s

fixUsername(username) ==
    TrimRight(TrimLeft([i \in DOMAIN username |-> toLowerCase(username[i])]))

(***************************************************************************)
(* Bounds and inputs                                                       *)
(***************************************************************************)
\* The number of saveStash and removeStash calls made in one behaviour.
MaxOps == 3

\* The calls that can be in flight at once.
Calls == {"c1"}

\* loginId texts: two of 32 bytes, one of 16, one of 33.
Id1Text    == Rep("A", 42) \o <<"E", "=">>
Id2Text    == Rep("/", 42) \o <<"8", "=">>
Short16    == Rep("A", 22) \o <<"=", "=">>
Long33     == Rep("A", 44)
LoginIdTexts == {Id1Text, Id2Text, Short16, Long33, <<>>}

Props(appId, loginId, username) ==
    (appIdKey :> Str(appId)) @@ (loginIdKey :> Str(loginId))
        @@ (usernameKey :> Str(username))

Without(obj, key) == [x \in (DOMAIN obj) \ {key} |-> obj[x]]

ChildStash == Obj((appIdKey :> Str(<<"c">>)) @@ (loginIdKey :> Str(Id1Text))
                    @@ (otpKeyKey :> Undefined))

\* Records saveStash accepts.
StashA1 == Obj(Props(<<>>, Id1Text, <<"a">>) @@ (otpKeyKey :> Str(<<"k">>)))
StashB1 == Obj(Props(<<>>, Id1Text, <<"b">>) @@ (otpKeyKey :> Undefined))
StashA2 == Obj(Props(<<>>, Id2Text, <<"a">>)
                 @@ (childrenKey :> Arr(<<ChildStash>>)))
StashU2 == Obj(Props(<<>>, Id2Text, <<"A", " ">>))
\* ... among them a record with a child whose appId is '', and a record
\* with two children of the same appId.
EmptyChild == Obj((appIdKey :> Str(<<>>)) @@ (loginIdKey :> Str(Id1Text)))
StashE1 == Obj(Props(<<>>, Id1Text, <<"b">>)
                 @@ (childrenKey :> Arr(<<EmptyChild>>)))
StashD2 == Obj(Props(<<>>, Id2Text, <<"b">>)
                 @@ (childrenKey :> Arr(<<ChildStash, ChildStash>>)))
ValidStashes == {StashA1, StashB1, StashA2, StashU2, StashE1, StashD2}

\* Records saveStash rejects.
InvalidStashes ==
    { Obj(Props(<<"c">>, Id1Text, <<"a">>)),
      Obj(Without(Props(<<>>, Id1Text, <<"a">>), appIdKey)),
      Obj(Without(Props(<<>>, Id1Text, <<"a">>), loginIdKey)),
      Obj((appIdKey :> Str(<<>>))),
      Obj(Without(Props(<<>>, Id1Text, <<"a">>), usernameKey)),
      Obj((usernameKey :> Null) @@ Props(<<>>, Id1Text, <<"a">>)),
      Obj(Props(<<>>, Short16, <<"a">>)),
      Obj(Props(<<>>, Long33, <<"a">>)),
      Obj(Props(<<>>, <<>>, <<"a">>)),
      Obj(Without(Props(<<"c">>, Short16, <<"a">>), usernameKey)),
      Obj(Without(Props(<<>>, Short16, <<"a">>), usernameKey)),
      Obj(Without(Props(<<>>, <<>>, <<"a">>), usernameKey)) }

StashInputs == ValidStashes \cup InvalidStashes

UsernameInputs == {<<"a">>, <<"A", " ">>, <<"b">>}

\* Files of the logins folder that the store did not write: one whose text
\* is not JSON, one whose text is the JSON null, one whose text is a JSON
\* number.
JunkName   == <<"j","u","n","k">>
NullName   == <<"n","u","l","l">>
NumberName == <<"n","u","m">>
InitialFolders ==
    { <<>>,
      (JunkName :> <<Tok("{")>>),
      (NullName :> <<Tok("null")>>),
      (NumberName :> <<NumTok(<<"7">>)>>) }

(***************************************************************************)
(* saveStash: validation, file name                                        *)
(***************************************************************************)
LoginIdLength == 32

NoError              == ""
AppIdNotRoot         == "Cannot save a login without an appId."
MissingLoginId       == "Cannot save a login without a loginId."
MissingUsername      == "Cannot save a login without a username."
InvalidLoginIdLength == "Invalid loginId"
StorageError         == "StorageError"
TypeError            == "TypeError"

\* The encoders, computed once for the texts and blobs of this model.
Base64Memo == [text \in LoginIdTexts |-> base64_decode(text)]
Base58Memo == [blob \in Range(Base64Memo) |-> base58_encode(blob)]

base64_parse(text) ==
    IF text \in DOMAIN Base64Memo THEN Base64Memo[text] ELSE base64_decode(text)

base58_stringify(blob) ==
    IF blob \in DOMAIN Base58Memo THEN Base58Memo[blob] ELSE base58_encode(blob)

\* !value
Falsy(value) == IsNullish(value) \/ value = Str(<<>>)

\* Variants of the checks, each with one slip: no length check; no appId
\* check; only too-short blobs rejected; username compared with undefined
\* alone.
saveStashError_NoLengthCheck(stashTree) ==
    IF Get(stashTree, appIdKey) # Str(<<>>) THEN AppIdNotRoot
    ELSE IF Falsy(Get(stashTree, loginIdKey)) THEN MissingLoginId
    ELSE IF IsNullish(Get(stashTree, usernameKey)) THEN MissingUsername
    ELSE NoError

saveStashError_NoAppIdCheck(stashTree) ==
    IF Falsy(Get(stashTree, loginIdKey)) THEN MissingLoginId
    ELSE IF IsNullish(Get(stashTree, usernameKey)) THEN MissingUsername
    ELSE IF Len(base64_parse(Get(stashTree, loginIdKey).v)) # LoginIdLength
         THEN InvalidLoginIdLength
    ELSE NoError

saveStashError_TooShortOnly(stashTree) ==
    IF Get(stashTree, appIdKey) # Str(<<>>) THEN AppIdNotRoot
    ELSE IF Falsy(Get(stashTree, loginIdKey)) THEN MissingLoginId
    ELSE IF IsNullish(Get(stashTree, usernameKey)) THEN MissingUsername
    ELSE IF Len(base64_parse(Get(stashTree, loginIdKey).v)) < LoginIdLength
         THEN InvalidLoginIdLength
    ELSE NoError

saveStashError_StrictUndefined(stashTree) ==
    IF Get(stashTree, appIdKey) # Str(<<>>) THEN AppIdNotRoot
    ELSE IF Falsy(Get(stashTree, loginIdKey)) THEN MissingLoginId
    ELSE IF Get(stashTree, usernameKey).k = "undefined" THEN MissingUsername
    ELSE IF Len(base64_parse(Get(stashTree, loginIdKey).v)) # LoginIdLength
         THEN InvalidLoginIdLength
    ELSE NoError

\* Variant: the username is checked before the loginId.
saveStashError_UsernameFirst(stashTree) ==
    IF Get(stashTree, appIdKey) # Str(<<>>) THEN AppIdNotRoot
    ELSE IF IsNullish(Get(stashTree, usernameKey)) THEN MissingUsername
    ELSE IF Falsy(Get(stashTree, loginIdKey)) THEN MissingLoginId
    ELSE IF Len(base64_parse(Get(stashTree, loginIdKey).v)) # LoginIdLength
         THEN InvalidLoginIdLength
    ELSE NoError

\* Variant: only a blob that is too long is rejected.
saveStashError_TooLongOnly(stashTree) ==
    IF Get(stashTree, appIdKey) # Str(<<>>) THEN AppIdNotRoot
    ELSE IF Falsy(Get(stashTree, loginIdKey)) THEN MissingLoginId
    ELSE IF IsNullish(Get(stashTree, usernameKey)) THEN MissingUsername
    ELSE IF Len(base64_parse(Get(stashTree, loginIdKey).v)) > LoginIdLength
         THEN InvalidLoginIdLength
    ELSE NoError

\* The checks of saveStash in their order: the message thrown, or NoError.
saveStashError(stashTree) ==
    IF Get(stashTree, appIdKey) # Str(<<>>) THEN AppIdNotRoot
    ELSE IF Falsy(Get(stashTree, loginIdKey)) THEN MissingLoginId
    ELSE IF IsNullish(Get(stashTree, usernameKey)) THEN MissingUsername
    ELSE IF Len(base64_parse(Get(stashTree, loginIdKey).v)) # LoginIdLength
         THEN InvalidLoginIdLength
    ELSE NoError

DotJson == <<".", "j", "s", "o", "n">>

\* Variant: the file named after the username.
saveStashFilename_ByUsername(stashTree) ==
    Get(stashTree, usernameKey).v \o DotJson

saveStashFilename(stashTree) ==
    base58_stringify(base64_parse(Get(stashTree, loginIdKey).v)) \o DotJson

\* Variant: the record serialized without its children.
saveStashText_NoChildren(stashTree) ==
    JSON_stringify(Obj(Without(stashTree.v, childrenKey)))

saveStashText(stashTree) == JSON_stringify(stashTree)

(***************************************************************************)
(* State                                                                   *)
(***************************************************************************)
VARIABLES
    folder,     \* the logins folder: file name -> text
    events,     \* the actions dispatched so far, oldest first
    calls,      \* each call slot: the call in flight and where it stands
    started     \* the number of calls made

vars == <<folder, events, calls, started>>

Idle == [op |-> "none", pc |-> "idle", arg |-> Null, filename |-> <<>>,
         text |-> <<>>, files |-> <<>>, error |-> NoError]

\* Variant: the event carries the loginId alone.
StashSaved_LoginIdOnly(stashTree) ==
    [type |-> "LOGIN_STASH_SAVED", payload |-> Get(stashTree, loginIdKey)]

StashSaved(stashTree) == [type |-> "LOGIN_STASH_SAVED", payload |-> stashTree]
StashDeleted(name)    == [type |-> "LOGIN_STASH_DELETED", payload |-> Str(name)]

Init ==
    /\ folder \in InitialFolders
    /\ events = <<>>
    /\ calls = [c \in Calls |-> Idle]
    /\ started = 0

(***************************************************************************)
(* saveStash                                                               *)
(***************************************************************************)
\* Variant: .then(dispatch(...)) for .then(() => dispatch(...)), so that
\* the event is dispatched while the call is made.
saveStash_EagerDispatch(c, stashTree) ==
    /\ calls[c].pc = "idle"
    /\ started < MaxOps
    /\ started' = started + 1
    /\ calls' = [calls EXCEPT ![c] =
          IF saveStashError(stashTree) # NoError
          THEN [Idle EXCEPT !.op = "saveStash", !.pc = "thrown",
                            !.arg = stashTree,
                            !.error = saveStashError(stashTree)]
          ELSE [Idle EXCEPT !.op = "saveStash", !.pc = "setText",
                            !.arg = stashTree,
                            !.filename = saveStashFilename(stashTree),
                            !.text = saveStashText(stashTree)]]
    /\ events' = IF saveStashError(stashTree) # NoError THEN events
                 ELSE Append(events, StashSaved(stashTree))
    /\ folder' = folder

\* The call itself: the checks run synchronously and throw; a record that
\* passes them is serialized and its setText is issued.
saveStash(c, stashTree) ==
    /\ calls[c].pc = "idle"
    /\ started < MaxOps
    /\ started' = started + 1
    /\ calls' = [calls EXCEPT ![c] =
          IF saveStashError(stashTree) # NoError
          THEN [Idle EXCEPT !.op = "saveStash", !.pc = "thrown",
                            !.arg = stashTree,
                            !.error = saveStashError(stashTree)]
          ELSE [Idle EXCEPT !.op = "saveStash", !.pc = "setText",
                            !.arg = stashTree,
                            !.filename = saveStashFilename(stashTree),
                            !.text = saveStashText(stashTree)]]
    /\ UNCHANGED <<folder, events>>

\* Variant: the write keeps one file per username: every other file with
\* the username of the text written is removed.
setText_OnePerUsername(dir, filename, text) ==
    LET new     == JSON_parse(text)
        same(n) == LET old == JSON_parse(dir[n])
                   IN  /\ old.ok /\ new.ok
                       /\ Get(old.value, usernameKey)
                             = Get(new.value, usernameKey)
    IN  [n \in {x \in DOMAIN dir : ~same(x)} \cup {filename} |->
            IF n = filename THEN text ELSE dir[n]]

\* Variant: a write that is not whole: the head of the text the file held
\* stays, the rest is the new text's.
setText_Partial(dir, filename, text) ==
    [n \in (DOMAIN dir) \cup {filename} |->
        IF n # filename THEN dir[n]
        ELSE IF n \in DOMAIN dir /\ Len(dir[n]) >= 12 /\ Len(text) >= 12
             THEN SubSeq(dir[n], 1, 12) \o SubSeq(text, 13, Len(text))
             ELSE text]

\* Variant: the text appended to what the file held.
setText_Append(dir, filename, text) ==
    [n \in (DOMAIN dir) \cup {filename} |->
        IF n # filename THEN dir[n]
        ELSE IF n \in DOMAIN dir THEN dir[n] \o text ELSE text]

\* file.setText: the text replaces whatever the file held.
setText(dir, filename, text) ==
    [n \in (DOMAIN dir) \cup {filename} |->
        IF n = filename THEN text ELSE dir[n]]

setTextDone(c) ==
    /\ calls[c].pc = "setText"
    /\ folder' = setText(folder, calls[c].filename, calls[c].text)
    /\ calls' = [calls EXCEPT ![c].pc = "written"]
    /\ UNCHANGED <<events, started>>

\* Variant: the failure of the write is caught, and the call goes on to its
\* dispatch.
setTextFail_Swallowed(c) ==
    /\ calls[c].pc = "setText"
    /\ calls' = [calls EXCEPT ![c].pc = "written"]
    /\ UNCHANGED <<folder, events, started>>

\* The write fails: the promise rejects and the .then callback never runs.
setTextFail(c) ==
    /\ calls[c].pc = "setText"
    /\ calls' = [calls EXCEPT ![c].pc = "rejected", ![c].error = StorageError]
    /\ UNCHANGED <<folder, events, started>>

\* .then(() => dispatch({ type: 'LOGIN_STASH_SAVED', payload: stashTree }))
saveDispatch(c) ==
    /\ calls[c].op = "saveStash"
    /\ calls[c].pc = "written"
    /\ events' = Append(events, StashSaved(calls[c].arg))
    /\ calls' = [calls EXCEPT ![c].pc = "resolved"]
    /\ UNCHANGED <<folder, started>>

(***************************************************************************)
(* getJsonFiles                                                            *)
(***************************************************************************)
Pending     == [st |-> "pending", json |-> Null]
Dropped     == [st |-> "dropped", json |-> Null]
FileInfo(j) == [st |-> "read", json |-> j]

\* mapFiles lists the folder, then reads every file it listed.
listFilesDone(c) ==
    /\ calls[c].pc = "listFiles"
    /\ calls' = [calls EXCEPT ![c].pc = "getText",
                              ![c].files = [n \in DOMAIN folder |-> Pending]]
    /\ UNCHANGED <<folder, events, started>>

listFilesFail(c) ==
    /\ calls[c].pc = "listFiles"
    /\ calls' = [calls EXCEPT ![c].pc = "rejected", ![c].error = StorageError]
    /\ UNCHANGED <<folder, events, started>>

\* Variant: without the .catch, a text that does not parse comes back as a
\* file with no json.
getTextResult_NoCatch(dir, name) ==
    IF name \notin DOMAIN dir THEN Dropped
    ELSE LET r == JSON_parse(dir[name])
         IN  IF r.ok THEN FileInfo(r.value) ELSE FileInfo(Undefined)

\* file.getText().then(text => ({ file, json: JSON.parse(text) }))
\*               .catch(e => void 0)
\* A file that is gone, or whose text does not parse, yields undefined.
getTextResult(dir, name) ==
    IF name \notin DOMAIN dir THEN Dropped
    ELSE LET r == JSON_parse(dir[name])
         IN  IF r.ok THEN FileInfo(r.value) ELSE Dropped

\* files.filter(file => file != null), as the set of names kept.
Kept(files) == {n \in DOMAIN files : files[n].st = "read"}

\* getJsonFiles where every read succeeds: the files kept, name -> json.
getJsonFiles(dir) ==
    LET files == [n \in DOMAIN dir |-> getTextResult(dir, n)]
    IN  [n \in Kept(files) |-> files[n].json]

getTextDone(c, name) ==
    /\ calls[c].pc = "getText"
    /\ name \in DOMAIN calls[c].files
    /\ calls[c].files[name].st = "pending"
    /\ calls' = [calls EXCEPT ![c].files[name] = getTextResult(folder, name)]
    /\ UNCHANGED <<folder, events, started>>

\* Variant: without the .catch on each file, the failure of one read
\* rejects the whole of mapFiles.
getTextFail_RejectsAll(c, name) ==
    /\ calls[c].pc = "getText"
    /\ name \in DOMAIN calls[c].files
    /\ calls[c].files[name].st = "pending"
    /\ calls' = [calls EXCEPT ![c].pc = "rejected", ![c].error = StorageError]
    /\ UNCHANGED <<folder, events, started>>

\* The read itself fails: caught, the file yields undefined.
getTextFail(c, name) ==
    /\ calls[c].pc = "getText"
    /\ name \in DOMAIN calls[c].files
    /\ calls[c].files[name].st = "pending"
    /\ calls' = [calls EXCEPT ![c].files[name] = Dropped]
    /\ UNCHANGED <<folder, events, started>>

\* The orders in which the folder can have listed the names.
Orders(names) ==
    {o \in [1..Cardinality(names) -> names] :
        \A i, j \in DOMAIN o : i # j => o[i] # o[j]}

(***************************************************************************)
(* removeStash                                                             *)
(***************************************************************************)
removeStash(c, username) ==
    /\ calls[c].pc = "idle"
    /\ started < MaxOps
    /\ started' = started + 1
    /\ calls' = [calls EXCEPT ![c] =
          [Idle EXCEPT !.op = "removeStash", !.pc = "listFiles",
                       !.arg = Str(username)]]
    /\ UNCHANGED <<folder, events>>

NotFound       == [kind |-> "undefined", name |-> <<>>]
Found(name)    == [kind |-> "found", name |-> name]
FindThrows     == [kind |-> TypeError, name |-> <<>>]

\* files.find(file => file.json.username === fixedName) over the files in
\* the order given: reading .username of null throws.
RECURSIVE find(_, _, _, _)
find(files, order, i, fixedName) ==
    IF i > Len(order) THEN NotFound
    ELSE IF IsNullish(files[order[i]].json) THEN FindThrows
    ELSE IF Get(files[order[i]].json, usernameKey) = Str(fixedName)
         THEN Found(order[i])
    ELSE find(files, order, i + 1, fixedName)

\* Every read has settled: the match is looked up and its delete issued.
removeFind(c) ==
    /\ calls[c].op = "removeStash"
    /\ calls[c].pc = "getText"
    /\ \A n \in DOMAIN calls[c].files : calls[c].files[n].st # "pending"
    /\ \E order \in Orders(Kept(calls[c].files)) :
          LET file == find(calls[c].files, order, 1,
                           fixUsername(calls[c].arg.v))
          IN  calls' = [calls EXCEPT ![c] =
                 CASE file.kind = "found" ->
                         [@ EXCEPT !.pc = "delete", !.filename = file.name]
                   [] file.kind = "undefined" ->
                         [@ EXCEPT !.pc = "deleted"]
                   [] OTHER ->
                         [@ EXCEPT !.pc = "rejected", !.error = TypeError]]
    /\ UNCHANGED <<folder, events, started>>

\* Variant: every file with the username of the file matched is deleted.
delete_EveryMatch(dir, filename) ==
    LET files == [n \in DOMAIN dir |-> JSON_parse(dir[n])]
        same(n) == /\ files[n].ok /\ files[filename].ok
                   /\ Get(files[n].value, usernameKey)
                         = Get(files[filename].value, usernameKey)
    IN  [n \in {x \in DOMAIN dir : x # filename /\ ~same(x)} |-> dir[n]]

\* file.delete(): the file is gone afterwards, whatever it held.
delete(dir, filename) == [n \in (DOMAIN dir) \ {filename} |-> dir[n]]

deleteDone(c) ==
    /\ calls[c].pc = "delete"
    /\ folder' = delete(folder, calls[c].filename)
    /\ calls' = [calls EXCEPT ![c].pc = "deleted"]
    /\ UNCHANGED <<events, started>>

\* Variant: the failure of the delete is swallowed and the chain goes on.
deleteFail_Swallowed(c) ==
    /\ calls[c].pc = "delete"
    /\ calls' = [calls EXCEPT ![c].pc = "deleted"]
    /\ UNCHANGED <<folder, events, started>>

\* file.delete() rejects: the file stays and the .then callback never runs.
deleteFail(c) ==
    /\ calls[c].pc = "delete"
    /\ calls' = [calls EXCEPT ![c].pc = "rejected", ![c].error = StorageError]
    /\ UNCHANGED <<folder, events, started>>

\* Variant: the event carries the username as it was passed.
removeDispatch_RawName(c) ==
    /\ calls[c].op = "removeStash"
    /\ calls[c].pc = "deleted"
    /\ events' = Append(events, StashDeleted(calls[c].arg.v))
    /\ calls' = [calls EXCEPT ![c].pc = "resolved"]
    /\ UNCHANGED <<folder, started>>

\* dispatch({ type: 'LOGIN_STASH_DELETED', payload: fixUsername(username) })
removeDispatch(c) ==
    /\ calls[c].op = "removeStash"
    /\ calls[c].pc = "deleted"
    /\ events' = Append(events, StashDeleted(fixUsername(calls[c].arg.v)))
    /\ calls' = [calls EXCEPT ![c].pc = "resolved"]
    /\ UNCHANGED <<folder, started>>

\* The caller has the outcome of its call: the value, the rejection or the
\* exception thrown.
Return(c) ==
    /\ calls[c].pc \in {"thrown", "rejected", "resolved"}
    /\ calls' = [calls EXCEPT ![c] = Idle]
    /\ UNCHANGED <<folder, events, started>>

Next ==
    \E c \in Calls :
        \/ \E stashTree \in StashInputs : saveStash(c, stashTree)
        \/ setTextDone(c)
        \/ setTextFail(c)
        \/ saveDispatch(c)
        \/ \E username \in UsernameInputs : removeStash(c, username)
        \/ listFilesDone(c)
        \/ listFilesFail(c)
        \/ \E name \in DOMAIN calls[c].files : getTextDone(c, name)
        \/ \E name \in DOMAIN calls[c].files : getTextFail(c, name)
        \/ removeFind(c)
        \/ deleteDone(c)
        \/ deleteFail(c)
        \/ removeDispatch(c)
        \/ Return(c)

Spec == Init /\ [][Next]_vars

(***************************************************************************)
(* Two calls in flight at once.  Nothing in saveStash or removeStash waits *)
(* for another call: the steps of two calls interleave at every promise.   *)
(***************************************************************************)
Slots == {"c1", "c2"}

\* Two records of one loginId, and the username of one of them.
ConcurrentStashes   == {StashA1, StashB1}
ConcurrentUsernames == {<<"a">>}

InitConcurrent ==
    /\ folder = <<>>
    /\ events = <<>>
    /\ calls = [c \in Slots |-> Idle]
    /\ started = 0

NextConcurrent ==
    \E c \in Slots :
        \/ \E stashTree \in ConcurrentStashes : saveStash(c, stashTree)
        \/ setTextDone(c)
        \/ setTextFail(c)
        \/ saveDispatch(c)
        \/ \E username \in ConcurrentUsernames : removeStash(c, username)
        \/ listFilesDone(c)
        \/ listFilesFail(c)
        \/ \E name \in DOMAIN calls[c].files : getTextDone(c, name)
        \/ \E name \in DOMAIN calls[c].files : getTextFail(c, name)
        \/ removeFind(c)
        \/ deleteDone(c)
        \/ deleteFail(c)
        \/ removeDispatch(c)
        \/ Return(c)

SpecConcurrent == InitConcurrent /\ [][NextConcurrent]_vars

(***************************************************************************)
(* Login: the username looked up among the stashes of the folder, then the *)
(* factor presented verified against the stash found, then its OTP.  The   *)
(* code of the logins is not part of the sources at hand: this section     *)
(* follows the design document (AuthFactorResolver); only the signatures   *)
(* of loginWithPassword and loginWithPIN and the three errors are taken    *)
(* from declarations.                                                      *)
(***************************************************************************)
UsernameError == "UsernameError"
PasswordError == "PasswordError"
OtpError      == "OtpError"

\* A stash with a password alone, and one with a password, a PIN and OTP.
StashP1 == Obj(Props(<<>>, Id1Text, <<"a">>) @@ (passwordKey :> Str(<<"p">>)))
StashO2 == Obj(Props(<<>>, Id2Text, <<"b">>) @@ (otpKeyKey :> Str(<<"k">>))
                 @@ (passwordKey :> Str(<<"p">>)) @@ (pinKey :> Str(<<"4">>)))

LoginFolder ==
    (saveStashFilename(StashP1) :> saveStashText(StashP1))
        @@ (saveStashFilename(StashO2) :> saveStashText(StashO2))

LoginUsernames == {<<"a">>, <<"B">>, <<"z">>}
LoginSecrets   == {<<"p">>, <<"4">>}
LoginOtps      == {Undefined, Str(<<"k">>), Str(<<"x">>)}

\* The call: the credential is one factor and, with opts.otp, the OTP key.
login(c, username, factor, secret, otp) ==
    /\ calls[c].pc = "idle"
    /\ started < MaxOps
    /\ started' = started + 1
    /\ calls' = [calls EXCEPT ![c] =
          [Idle EXCEPT !.op = "login", !.pc = "listFiles",
                       !.arg = Obj((usernameKey :> Str(username))
                                      @@ (factor :> Str(secret))
                                      @@ (otpOption :> otp))]]
    /\ UNCHANGED <<folder, events>>

loginWithPassword(c, username, password, otp) ==
    login(c, username, passwordKey, password, otp)

loginWithPIN(c, username, pin, otp) ==
    login(c, username, pinKey, pin, otp)

\* The root stashes read that carry the normalized username.
Matching(files, username) ==
    {n \in Kept(files) :
        /\ Get(files[n].json, appIdKey) = Str(<<>>)
        /\ Get(files[n].json, usernameKey) = Str(fixUsername(username))}

\* Variant: the lookup goes on to the factor with no stash in hand.
loginFind_NoUsernameError(c) ==
    /\ calls[c].op = "login"
    /\ calls[c].pc = "getText"
    /\ \A n \in DOMAIN calls[c].files : calls[c].files[n].st # "pending"
    /\ LET found == Matching(calls[c].files, Get(calls[c].arg, usernameKey).v)
       IN  \/ \E n \in found :
                 calls' = [calls EXCEPT ![c].pc = "factor", ![c].filename = n]
           \/ /\ found = {}
              /\ calls' = [calls EXCEPT ![c].pc = "factor"]
    /\ UNCHANGED <<folder, events, started>>

\* First the username: no root stash with it is a UsernameError.
loginFind(c) ==
    /\ calls[c].op = "login"
    /\ calls[c].pc = "getText"
    /\ \A n \in DOMAIN calls[c].files : calls[c].files[n].st # "pending"
    /\ LET found == Matching(calls[c].files, Get(calls[c].arg, usernameKey).v)
       IN  \/ \E n \in found :
                 calls' = [calls EXCEPT ![c].pc = "factor", ![c].filename = n]
           \/ /\ found = {}
              /\ calls' = [calls EXCEPT ![c].pc = "rejected",
                                        ![c].error = UsernameError]
    /\ UNCHANGED <<folder, events, started>>

\* The stash a login has found.
StashOf(call) ==
    IF call.filename \in DOMAIN call.files
    THEN call.files[call.filename].json ELSE Undefined

\* The factor presented: the one property of the credential that is
\* neither the username nor the OTP option.
FactorOf(call) ==
    CHOOSE key \in DOMAIN call.arg.v : key \notin {usernameKey, otpOption}

\* Second the factor presented, against the one the stash holds.
verifyFactor(c) ==
    /\ calls[c].op = "login"
    /\ calls[c].pc = "factor"
    /\ LET key == FactorOf(calls[c])
       IN  calls' = [calls EXCEPT ![c] =
              IF Get(StashOf(calls[c]), key) = Get(calls[c].arg, key)
              THEN [@ EXCEPT !.pc = "otp"]
              ELSE [@ EXCEPT !.pc = "rejected", !.error = PasswordError]]
    /\ UNCHANGED <<folder, events, started>>

\* Variant: the OTP is never asked for.
verifyOtp_Skipped(c) ==
    /\ calls[c].op = "login"
    /\ calls[c].pc = "otp"
    /\ calls' = [calls EXCEPT ![c].pc = "resolved"]
    /\ UNCHANGED <<folder, events, started>>

\* Then the OTP, whichever factor has been verified, when the stash has an
\* otpKey.
verifyOtp(c) ==
    /\ calls[c].op = "login"
    /\ calls[c].pc = "otp"
    /\ LET otpKey == Get(StashOf(calls[c]), otpKeyKey)
       IN  calls' = [calls EXCEPT ![c] =
              IF IsNullish(otpKey) \/ Get(calls[c].arg, otpOption) = otpKey
              THEN [@ EXCEPT !.pc = "resolved"]
              ELSE [@ EXCEPT !.pc = "rejected", !.error = OtpError]]
    /\ UNCHANGED <<folder, events, started>>

InitLogin ==
    /\ folder \in {<<>>, LoginFolder}
    /\ events = <<>>
    /\ calls = [c \in Calls |-> Idle]
    /\ started = 0

NextLogin ==
    \E c \in Calls :
        \/ \E username \in LoginUsernames, password \in LoginSecrets,
              otp \in LoginOtps : loginWithPassword(c, username, password, otp)
        \/ \E username \in LoginUsernames, pin \in LoginSecrets,
              otp \in LoginOtps : loginWithPIN(c, username, pin, otp)
        \/ listFilesDone(c)
        \/ listFilesFail(c)
        \/ \E name \in DOMAIN calls[c].files : getTextDone(c, name)
        \/ \E name \in DOMAIN calls[c].files : getTextFail(c, name)
        \/ loginFind(c)
        \/ verifyFactor(c)
        \/ verifyOtp(c)
        \/ Return(c)

SpecLogin == InitLogin /\ [][NextLogin]_vars

(***************************************************************************)
(* Properties                                                              *)
(***************************************************************************)
\* Call c takes a step.
StepOf(c) == calls'[c] # calls[c]

\* Call c is made in this step, and it is a saveStash.
SaveCalled(c) == calls[c].pc = "idle" /\ calls'[c].op = "saveStash"

LoginIdOf(stashTree)  == Get(stashTree, loginIdKey)
UsernameOf(stashTree) == Get(stashTree, usernameKey)

IsRoot(stashTree) == Get(stashTree, appIdKey) = Str(<<>>)

\* The length in bytes of the blob a loginId text stands for.
DecodedLength(stashTree) == Len(base64_decode(LoginIdOf(stashTree).v))

\* The records an enumeration of the folder returns.
Enumerated(dir) == Range(getJsonFiles(dir))

\* The stash files of the folder: the names whose json is an object.
StashFiles(dir) ==
    LET files == getJsonFiles(dir)
    IN  {n \in DOMAIN files : files[n].k = "object"}

\* A value with every property that holds undefined removed, at any depth.
RECURSIVE WithoutUndefined(_)
WithoutUndefined(value) ==
    CASE value.k = "object" ->
            Obj([key \in {x \in DOMAIN value.v : value.v[x].k # "undefined"} |->
                    WithoutUndefined(value.v[key])])
      [] value.k = "array" ->
            Arr([i \in DOMAIN value.v |-> WithoutUndefined(value.v[i])])
      [] OTHER -> value

\* The four validation rules, as the data model states them.
FailsValidation(stashTree) ==
    \/ ~IsRoot(stashTree)
    \/ loginIdKey \notin DOMAIN stashTree.v
    \/ IsNullish(UsernameOf(stashTree))
    \/ DecodedLength(stashTree) # 32

\* C1: a saveStash of a record that fails a validation rule throws, and
\* no step of it writes to the folder or dispatches an event.
C1_InvalidSaveHasNoEffect ==
    [][\A c \in Calls :
          (StepOf(c) /\ calls'[c].op = "saveStash"
              /\ FailsValidation(calls'[c].arg))
          => /\ calls'[c].pc = "thrown"
             /\ folder' = folder
             /\ events' = events]_vars

C1_Witness ==
    \E c \in Calls :
        /\ calls[c].pc = "thrown"
        /\ FailsValidation(calls[c].arg)
        /\ StashFiles(folder) # {}
        /\ events # <<>>

\* C2: a saveStash of a record whose appId is not '' throws the appId
\* error, and the folder enumerates to the same records afterwards.
C2_NonRootRejected ==
    [][\A c \in Calls :
          (SaveCalled(c) /\ ~IsRoot(calls'[c].arg))
          => /\ calls'[c].pc = "thrown"
             /\ calls'[c].error = AppIdNotRoot
             /\ Enumerated(folder') = Enumerated(folder)]_vars

C2_Witness ==
    \E c \in Calls :
        /\ calls[c].pc = "thrown"
        /\ calls[c].error = AppIdNotRoot
        /\ Get(calls[c].arg, appIdKey) = Str(<<"c">>)
        /\ StashFiles(folder) # {}

\* The case of C3: a root record with a username and a loginId text.
HasLoginIdText(stashTree) ==
    /\ IsRoot(stashTree)
    /\ ~IsNullish(UsernameOf(stashTree))
    /\ LoginIdOf(stashTree).k = "string"

\* C3 as stated: every decoded length but 32 is answered with the
\* invalid-length error.
C3_AnyOtherLengthIsInvalidLength ==
    [][\A c \in Calls :
          (SaveCalled(c) /\ HasLoginIdText(calls'[c].arg)
              /\ DecodedLength(calls'[c].arg) # 32)
          => /\ calls'[c].pc = "thrown"
             /\ calls'[c].error = InvalidLoginIdLength
             /\ folder' = folder]_vars

\* C3, amended: a non-empty loginId text that decodes to any length but 32
\* is answered with the invalid-length error, the empty text with the
\* missing-loginId error; neither writes a file.
C3_NonEmptyOtherLengthIsInvalidLength ==
    [][\A c \in Calls :
          (StepOf(c) /\ calls'[c].op = "saveStash"
              /\ HasLoginIdText(calls'[c].arg)
              /\ DecodedLength(calls'[c].arg) # 32)
          => /\ calls'[c].pc = "thrown"
             /\ calls'[c].error =
                   IF LoginIdOf(calls'[c].arg).v = <<>>
                   THEN MissingLoginId ELSE InvalidLoginIdLength
             /\ folder' = folder]_vars

C3_Witness ==
    \E c \in Calls :
        /\ calls[c].pc = "thrown"
        /\ calls[c].error = InvalidLoginIdLength
        /\ HasLoginIdText(calls[c].arg)
        /\ DecodedLength(calls[c].arg) = 33

\* C4: a saveStash of a root record with a loginId and no username (absent
\* or null) throws the username error, and every step that changes the
\* folder (which starts without a stash file) leaves every stash file in it
\* with a username.
C4_MissingUsername ==
    [][/\ \A c \in Calls :
             (StepOf(c) /\ calls'[c].op = "saveStash"
                 /\ IsRoot(calls'[c].arg)
                 /\ ~Falsy(LoginIdOf(calls'[c].arg))
                 /\ IsNullish(UsernameOf(calls'[c].arg)))
             => /\ calls'[c].pc = "thrown"
                /\ calls'[c].error = MissingUsername
       /\ folder' # folder
          => LET files == getJsonFiles(folder')
             IN  \A n \in DOMAIN files :
                    files[n].k = "object" => ~IsNullish(UsernameOf(files[n]))]_vars

C4_Witness ==
    \E c \in Calls :
        /\ calls[c].pc = "thrown"
        /\ calls[c].error = MissingUsername
        /\ UsernameOf(calls[c].arg) = Null
        /\ StashFiles(folder) # {}

\* C5 as stated: once a saveStash has resolved, the folder enumerates to a
\* record equal to the one saved.
C5_EnumeratesTheRecordSaved ==
    \A c \in Calls :
        (calls[c].op = "saveStash" /\ calls[c].pc = "resolved")
        => calls[c].arg \in Enumerated(folder)

\* C5, amended: once a saveStash has resolved, the folder enumerates to the
\* record saved less its properties that hold undefined, children and other
\* properties included.
C5_RoundTrip ==
    \A c \in Calls :
        (calls[c].op = "saveStash" /\ calls[c].pc = "resolved")
        => WithoutUndefined(calls[c].arg) \in Enumerated(folder)

C5_Witness ==
    \E c \in Calls :
        /\ calls[c].op = "saveStash"
        /\ calls[c].pc = "resolved"
        /\ Get(calls[c].arg, childrenKey).k = "array"
        /\ calls[c].arg # WithoutUndefined(calls[c].arg)

\* The file name of the addressing rule, from the encoders themselves.
AddressOf(stashTree) ==
    base58_encode(base64_decode(LoginIdOf(stashTree).v)) \o DotJson

\* C6: the write of a saveStash goes to base58(loginId blob) + ".json" and
\* to no other file, and a stash file it replaces has the same loginId.
C6_Addressing ==
    [][\A c \in Calls :
          (calls[c].pc = "setText" /\ calls'[c].pc = "written")
          => LET name == AddressOf(calls[c].arg)
             IN  /\ DOMAIN folder' = (DOMAIN folder) \cup {name}
                 /\ folder'[name] = calls[c].text
                 /\ \A n \in (DOMAIN folder) \ {name} : folder'[n] = folder[n]
                 /\ name \in StashFiles(folder)
                       => LoginIdOf(getJsonFiles(folder)[name])
                             = LoginIdOf(calls[c].arg)]_vars

C6_Witness ==
    \E n1, n2 \in StashFiles(folder) :
        /\ n1 # n2
        /\ LoginIdOf(getJsonFiles(folder)[n1]) # LoginIdOf(getJsonFiles(folder)[n2])
        /\ UsernameOf(getJsonFiles(folder)[n1]) = UsernameOf(getJsonFiles(folder)[n2])

\* The stash files that hold a given loginId.
FilesOfLoginId(dir, loginId) ==
    LET files == getJsonFiles(dir)
    IN  {n \in DOMAIN files :
            files[n].k = "object" /\ LoginIdOf(files[n]) = loginId}

\* C7: a saveStash whose file exists replaces the whole of it: afterwards
\* the file holds the new record and nothing else, it is the one file of
\* that loginId, and every other file is as it was.
C7_Overwrite ==
    [][\A c \in Calls :
          (calls[c].pc = "setText" /\ calls'[c].pc = "written"
              /\ calls[c].filename \in DOMAIN folder)
          => /\ DOMAIN folder' = DOMAIN folder
             /\ \A n \in (DOMAIN folder) \ {calls[c].filename} :
                   folder'[n] = folder[n]
             /\ calls[c].filename \in DOMAIN getJsonFiles(folder')
             /\ getJsonFiles(folder')[calls[c].filename]
                   = WithoutUndefined(calls[c].arg)
             /\ FilesOfLoginId(folder', LoginIdOf(calls[c].arg))
                   = {calls[c].filename}]_vars

C7_Witness ==
    \E c \in Calls :
        /\ calls[c].op = "saveStash"
        /\ calls[c].pc = "resolved"
        /\ calls[c].arg = StashB1
        /\ Len(events) >= 2
        /\ events[Len(events) - 1] = StashSaved(StashA1)
        /\ getJsonFiles(folder)[calls[c].filename] = WithoutUndefined(StashB1)

\* C8: the step that resolves a saveStash appends one LOGIN_STASH_SAVED
\* event whose payload is the record saved; no other step of a saveStash
\* changes the events, and a resolved call takes no step but its return.
C8_SaveEvent ==
    [][\A c \in Calls :
          /\ (StepOf(c) /\ calls'[c].op = "saveStash")
             => events' =
                   IF calls'[c].pc = "resolved"
                   THEN Append(events, [type |-> "LOGIN_STASH_SAVED",
                                        payload |-> calls'[c].arg])
                   ELSE events
          /\ (StepOf(c) /\ calls[c].pc = "resolved")
             => calls'[c] = Idle /\ events' = events]_vars

C8_Witness ==
    \E c \in Calls :
        /\ calls[c].op = "saveStash"
        /\ calls[c].pc = "resolved"
        /\ events # <<>>
        /\ events[Len(events)].type = "LOGIN_STASH_SAVED"
        /\ events[Len(events)].payload = calls[c].arg

\* The disk operation of call c is done: the text written is in the file,
\* or the scan is over and the file matched, if any, is gone.
DiskOperationDone(c) ==
    \/ /\ calls[c].op = "saveStash"
       /\ calls[c].pc = "written"
       /\ calls[c].filename \in DOMAIN folder
       /\ folder[calls[c].filename] = calls[c].text
    \/ /\ calls[c].op = "removeStash"
       /\ calls[c].pc = "deleted"
       /\ \A n \in DOMAIN calls[c].files : calls[c].files[n].st # "pending"
       /\ calls[c].filename # <<>> => calls[c].filename \notin DOMAIN folder

\* C9: an event is dispatched only by a call whose disk operation is done,
\* in the step that resolves it; the step that returns a resolved call to
\* its caller comes after and dispatches nothing.
C9_EventAfterDiskBeforeResult ==
    [][/\ events' # events
          => \E c \in Calls :
                /\ DiskOperationDone(c)
                /\ calls'[c].pc = "resolved"
                /\ Len(events') = Len(events) + 1
                /\ SubSeq(events', 1, Len(events)) = events
       /\ \A c \in Calls :
             (calls'[c].pc = "resolved" /\ calls[c].pc # "resolved")
             => Len(events') = Len(events) + 1
       /\ \A c \in Calls :
             (calls[c].pc = "resolved" /\ StepOf(c))
             => events' = events /\ events # <<>>]_vars

C9_Witness ==
    /\ Len(events) >= 2
    /\ events[1].type = "LOGIN_STASH_SAVED"
    /\ events[2].type = "LOGIN_STASH_DELETED"
    /\ \E c \in Calls : calls[c].pc = "resolved" /\ calls[c].filename # <<>>
                          /\ calls[c].op = "removeStash"

\* The step in which call c settles: it resolves or rejects.
Settles(c) ==
    /\ calls'[c].pc \in {"resolved", "rejected"}
    /\ calls[c].pc \notin {"resolved", "rejected"}

DeletedEvent(username) ==
    [type |-> "LOGIN_STASH_DELETED", payload |-> Str(fixUsername(username))]

\* C10 as stated: every removeStash dispatches one LOGIN_STASH_DELETED event
\* with the normalized username, in the step that settles it.
C10_EveryRemoveDispatches ==
    [][\A c \in Calls :
          (StepOf(c) /\ calls'[c].op = "removeStash")
          => events' =
                IF Settles(c)
                THEN Append(events, DeletedEvent(calls'[c].arg.v))
                ELSE events]_vars

\* C10, amended: every removeStash that resolves dispatches one
\* LOGIN_STASH_DELETED event with the normalized username, a file matched
\* or not; a removeStash that rejects dispatches none.
C10_ResolvedRemoveDispatches ==
    [][\A c \in Calls :
          /\ (StepOf(c) /\ calls'[c].op = "removeStash")
             => events' =
                   IF calls'[c].pc = "resolved"
                   THEN Append(events, DeletedEvent(calls'[c].arg.v))
                   ELSE events
          /\ (StepOf(c) /\ calls[c].pc = "resolved")
             => calls'[c] = Idle]_vars

C10_Witness ==
    \E c \in Calls :
        /\ calls[c].op = "removeStash"
        /\ calls[c].pc = "resolved"
        /\ calls[c].filename = <<>>
        /\ calls[c].arg.v # fixUsername(calls[c].arg.v)
        /\ StashFiles(folder) # {}
        /\ events[Len(events)] = DeletedEvent(calls[c].arg.v)

\* The files kept by an enumeration whose json carries a given username.
Carriers(dir, username) ==
    LET files == getJsonFiles(dir)
    IN  {n \in DOMAIN files : Get(files[n], usernameKey) = Str(username)}

\* No file of the folder carries the username, as passed or normalized.
NoCarrier(dir, username) ==
    /\ Carriers(dir, username) = {}
    /\ Carriers(dir, fixUsername(username)) = {}

\* C11: no step of a removeStash of a username that no stored record
\* carries (the call has matched no file) changes the folder, and the call
\* does not fail of itself: it rejects only with an error of the storage.
C11_RemoveOfUnknownUsernameSucceeds ==
    [][\A c \in Calls :
          (StepOf(c) /\ calls'[c].op = "removeStash"
              /\ NoCarrier(folder, calls'[c].arg.v)
              /\ calls[c].filename = <<>>)
          => /\ folder' = folder
             /\ calls'[c].pc = "rejected" => calls'[c].error = StorageError]_vars

\* The part of C11 that the code keeps: no step of such a removeStash
\* changes the folder, and a scan that does not throw goes on to the
\* dispatch without a delete.
C11_RemoveOfUnknownUsernameDeletesNothing ==
    [][\A c \in Calls :
          (StepOf(c) /\ calls'[c].op = "removeStash"
              /\ NoCarrier(folder, calls'[c].arg.v)
              /\ calls[c].filename = <<>>)
          => /\ folder' = folder
             /\ calls'[c].pc # "delete"
             /\ calls'[c].filename = <<>>]_vars

C11_Witness ==
    \E c \in Calls :
        /\ calls[c].op = "removeStash"
        /\ calls[c].pc = "resolved"
        /\ NoCarrier(folder, calls[c].arg.v)
        /\ StashFiles(folder) # {}
        /\ Len(events) >= 2
        /\ events[Len(events)] = events[Len(events) - 1]

\* C12: a removeStash changes the folder in one step at most, the one that
\* completes its delete, and that step removes one file, which carries the
\* normalized username: every other file is as it was, so the other files
\* that carry the username are still enumerated.  A scan that has read a
\* file carrying the username, and does not throw, issues that one delete.
C12_AtMostOneFileDeleted ==
    [][\A c \in Calls :
          (StepOf(c) /\ calls'[c].op = "removeStash")
          => LET fixedName == fixUsername(calls'[c].arg.v)
                 matches   == Carriers(folder, fixedName)
             IN  /\ IF calls[c].pc = "delete" /\ calls'[c].pc = "deleted"
                    THEN /\ calls[c].filename \in matches
                         /\ DOMAIN folder' = (DOMAIN folder) \ {calls[c].filename}
                         /\ \A n \in DOMAIN folder' : folder'[n] = folder[n]
                         /\ Carriers(folder', fixedName)
                               = matches \ {calls[c].filename}
                    ELSE folder' = folder
                 /\ calls[c].pc = "deleted" => calls'[c].pc = "resolved"
                 /\ (calls[c].pc = "getText" /\ calls'[c].pc \notin {"getText", "rejected"}
                        /\ matches \cap Kept(calls[c].files) # {})
                    => /\ calls'[c].pc = "delete"
                       /\ calls'[c].filename \in matches]_vars

C12_Witness ==
    \E c \in Calls :
        /\ calls[c].op = "removeStash"
        /\ calls[c].pc = "resolved"
        /\ calls[c].filename # <<>>
        /\ calls[c].filename \notin DOMAIN folder
        /\ Carriers(folder, fixUsername(calls[c].arg.v)) # {}

\* The last event dispatched is the save of a record with the username of
\* call c, whose file is the one file that carries that username.
SavedJustBefore(c) ==
    /\ events # <<>>
    /\ events[Len(events)].type = "LOGIN_STASH_SAVED"
    /\ UsernameOf(events[Len(events)].payload) = calls[c].arg
    /\ Carriers(folder, calls[c].arg.v)
          = {saveStashFilename(events[Len(events)].payload)}

\* C13: a removeStash of the username of the record whose saveStash has just
\* resolved, that record being the only one stored with the username, ends
\* its scan (every file read, nothing thrown) by issuing the delete of the
\* file of that record.
C13_SavedStashIsRemovedByItsUsername ==
    [][\A c \in Calls :
          (/\ calls[c].op = "removeStash"
           /\ calls[c].pc = "getText"
           /\ calls'[c].pc \notin {"getText", "rejected"}
           /\ SavedJustBefore(c)
           /\ Kept(calls[c].files) = DOMAIN getJsonFiles(folder))
          => /\ calls'[c].pc = "delete"
             /\ calls'[c].filename
                   = saveStashFilename(events[Len(events)].payload)]_vars

\* The part of C13 that the code keeps: the same, of a username that is its
\* own normal form.
C13_NormalizedUsernameIsRemoved ==
    [][\A c \in Calls :
          (/\ calls[c].op = "removeStash"
           /\ calls[c].pc = "getText"
           /\ calls'[c].pc \notin {"getText", "rejected"}
           /\ SavedJustBefore(c)
           /\ fixUsername(calls[c].arg.v) = calls[c].arg.v
           /\ Kept(calls[c].files) = DOMAIN getJsonFiles(folder))
          => /\ calls'[c].pc = "delete"
             /\ calls'[c].filename
                   = saveStashFilename(events[Len(events)].payload)]_vars

\* The case of C13 where the code does remove the record: its username is
\* its own normal form.
C13_Witness ==
    \E c \in Calls :
        /\ calls[c].op = "removeStash"
        /\ calls[c].pc = "resolved"
        /\ Len(events) >= 2
        /\ events[Len(events) - 1].type = "LOGIN_STASH_SAVED"
        /\ UsernameOf(events[Len(events) - 1].payload) = calls[c].arg
        /\ calls[c].filename = saveStashFilename(events[Len(events) - 1].payload)
        /\ calls[c].filename \notin DOMAIN folder

\* The files of a folder whose text is not JSON.
Unparsable(dir) == {n \in DOMAIN dir : ~JSON_parse(dir[n]).ok}

\* A folder of stash files and at least one file that does not parse.
StashesAndUnparsable(dir) ==
    /\ Unparsable(dir) # {}
    /\ (DOMAIN dir) \ Unparsable(dir) = StashFiles(dir)

\* C14: the read of a file that does not parse yields no file and no error,
\* the scan goes on, and the read of a file that parses yields its json; in
\* a folder of stash files and unparsable files the scan ends without an
\* error, and with the delete of a file carrying the username when it has
\* read one.
C14_TolerantEnumeration ==
    [][\A c \in Calls :
          /\ \A n \in DOMAIN calls[c].files :
                (calls[c].files[n].st = "pending" /\ calls'[c].files # calls[c].files
                    /\ n \in Unparsable(folder))
                => /\ calls'[c].pc = "getText"
                   /\ calls'[c].error = NoError
                   /\ n \notin Kept(calls'[c].files)
                   /\ \A m \in Kept(calls'[c].files) :
                         /\ m \in DOMAIN getJsonFiles(folder)
                         /\ calls'[c].files[m].json = getJsonFiles(folder)[m]
          /\ (calls[c].op = "removeStash" /\ calls[c].pc = "getText"
                 /\ calls'[c].pc # "getText" /\ StashesAndUnparsable(folder))
             => LET matches == Carriers(folder, fixUsername(calls[c].arg.v))
                                  \cap Kept(calls[c].files)
                IN  /\ calls'[c].error = NoError
                    /\ IF matches = {} THEN calls'[c].pc = "deleted"
                       ELSE /\ calls'[c].pc = "delete"
                            /\ calls'[c].filename \in matches]_vars

C14_Witness ==
    \E c \in Calls :
        /\ calls[c].op = "removeStash"
        /\ calls[c].pc = "resolved"
        /\ StashesAndUnparsable(folder)
        /\ Unparsable(folder) \subseteq DOMAIN calls[c].files
        /\ calls[c].filename # <<>>
        /\ calls[c].filename \notin DOMAIN folder
        /\ StashFiles(folder) # {}

\* The files of a folder whose text is JSON for something other than a
\* record: null, a number, a string, an array.
NotRecords(dir) ==
    {n \in DOMAIN dir :
        JSON_parse(dir[n]).ok /\ JSON_parse(dir[n]).value.k # "object"}

\* C15: the read of a file whose JSON is not a record yields no file, so
\* that the file is left out of the enumeration, and the scan of a
\* removeStash in a folder with such a file ends without an error.
C15_NonRecordFilesAreExcluded ==
    [][\A c \in Calls :
          /\ \A n \in DOMAIN calls[c].files :
                (calls[c].files[n].st = "pending" /\ calls'[c].files # calls[c].files
                    /\ n \in NotRecords(folder))
                => n \notin Kept(calls'[c].files)
          /\ (calls[c].op = "removeStash" /\ calls[c].pc = "getText"
                 /\ calls'[c].pc # "getText" /\ NotRecords(folder) # {})
             => /\ calls'[c].pc \in {"delete", "deleted"}
                /\ calls'[c].error = NoError]_vars

\* The second half of C15 alone: the scan of a removeStash in a folder with
\* a file whose JSON is not a record ends without an error.
C15_RemoveCompletesAmongNonRecords ==
    [][\A c \in Calls :
          (calls[c].op = "removeStash" /\ calls[c].pc = "getText"
              /\ calls'[c].pc # "getText" /\ NotRecords(folder) # {})
          => /\ calls'[c].pc \in {"delete", "deleted"}
             /\ calls'[c].error = NoError]_vars

\* What the code does with a file holding a number: it is enumerated, and
\* a removeStash scans past it and resolves.
C15_Witness ==
    \E c \in Calls :
        /\ calls[c].op = "removeStash"
        /\ calls[c].pc = "resolved"
        /\ NumberName \in NotRecords(folder)
        /\ NumberName \in Kept(calls[c].files)
        /\ calls[c].filename # <<>>

\* The children of a record, as a sequence (none when there is no array).
ChildrenOf(stashTree) ==
    IF Get(stashTree, childrenKey).k = "array"
    THEN Get(stashTree, childrenKey).v ELSE <<>>

\* The rule of the data model for children, at every depth: each child's
\* appId is a non-empty string, and no two siblings have the same appId.
RECURSIVE ChildrenValid(_)
ChildrenValid(stashTree) ==
    LET children == ChildrenOf(stashTree)
    IN  /\ \A i \in DOMAIN children :
              /\ Get(children[i], appIdKey).k = "string"
              /\ Get(children[i], appIdKey).v # <<>>
              /\ ChildrenValid(children[i])
        /\ \A i, j \in DOMAIN children :
              i # j => Get(children[i], appIdKey) # Get(children[j], appIdKey)

\* C16: a saveStash of a record whose children break the rule throws, and
\* every step that changes the folder (which starts without a stash file)
\* leaves in it only records whose children keep the rule.
C16_ChildrenAreValidated ==
    [][/\ \A c \in Calls :
             (SaveCalled(c) /\ ~ChildrenValid(calls'[c].arg))
             => calls'[c].pc = "thrown"
       /\ folder' # folder
          => LET files == getJsonFiles(folder')
             IN  \A n \in DOMAIN files : ChildrenValid(files[n])]_vars

\* What the code does: the record with two children of one appId is
\* written, its event dispatched, and the folder enumerates to it.
C16_Witness ==
    \E c \in Calls :
        /\ calls[c].op = "saveStash"
        /\ calls[c].pc = "resolved"
        /\ calls[c].arg = StashD2
        /\ ~ChildrenValid(calls[c].arg)
        /\ WithoutUndefined(calls[c].arg) \in Enumerated(folder)
        /\ events[Len(events)] = StashSaved(StashD2)

\* The text call c was to write is not in its file.
NotWritten(c, dir) ==
    \/ calls[c].filename \notin DOMAIN dir
    \/ dir[calls[c].filename] # calls[c].text

\* C17: when the step that ends the setText of a saveStash leaves the file
\* without the text, the call rejects with the error of the storage, and
\* changes neither the folder nor the events; a rejected call takes no step
\* but its return, which dispatches nothing; and a call issues a setText
\* only in the step that makes it, so the write is attempted once.
C17_WriteFailure ==
    [][\A c \in Calls :
          /\ (calls[c].pc = "setText" /\ StepOf(c) /\ NotWritten(c, folder'))
             => /\ calls'[c].pc = "rejected"
                /\ calls'[c].error = StorageError
                /\ calls'[c].arg = calls[c].arg
                /\ folder' = folder
                /\ events' = events
          /\ (calls[c].pc = "rejected" /\ StepOf(c))
             => /\ calls'[c] = Idle
                /\ folder' = folder
                /\ events' = events
          /\ (calls'[c].pc = "setText" /\ StepOf(c))
             => calls[c].pc = "idle"]_vars

C17_Witness ==
    \E c \in Calls :
        /\ calls[c].op = "saveStash"
        /\ calls[c].pc = "rejected"
        /\ calls[c].error = StorageError
        /\ saveStashError(calls[c].arg) = NoError
        /\ NotWritten(c, folder)
        /\ calls[c].filename \in DOMAIN folder
        /\ events # <<>>
        /\ events[Len(events)] # StashSaved(calls[c].arg)

\* Calls c and d are two saveStash calls of one loginId, both in flight.
SavesOfOneLoginId(c, d) ==
    /\ c # d
    /\ calls[c].op = "saveStash" /\ calls[d].op = "saveStash"
    /\ calls[c].pc \in {"setText", "written"}
    /\ calls[d].pc \in {"setText", "written"}
    /\ LoginIdOf(calls[c].arg) = LoginIdOf(calls[d].arg)

\* C18: of two saveStash calls of one loginId in flight at once, neither
\* waits for the other (the write of each can complete, then its dispatch),
\* and the step in which the write of one completes leaves the file holding
\* that call's record, whole, whatever the other call wrote before; the
\* file changes in no other step of the two.
C18_LastWriteWins ==
    [][\A c, d \in Slots :
          SavesOfOneLoginId(c, d)
          => /\ calls[c].pc = "setText" => ENABLED setTextDone(c)
             /\ calls[c].pc = "written" => ENABLED saveDispatch(c)
             /\ calls[c].filename = calls[d].filename
             /\ IF calls[c].pc = "setText" /\ calls'[c].pc = "written"
                THEN /\ folder'[calls[c].filename] = JSON_stringify(calls[c].arg)
                     /\ getJsonFiles(folder')[calls[c].filename]
                           = WithoutUndefined(calls[c].arg)
                ELSE (StepOf(c) /\ calls'[d] = calls[d]) => folder' = folder]_vars

\* Both calls have resolved; the write of c2 completed first and the write
\* of c1 last, and the file holds the record of c1.
C18_Witness ==
    /\ calls["c1"].op = "saveStash" /\ calls["c1"].pc = "resolved"
    /\ calls["c2"].op = "saveStash" /\ calls["c2"].pc = "resolved"
    /\ calls["c1"].arg = StashA1
    /\ calls["c2"].arg = StashB1
    /\ events = <<StashSaved(StashA1), StashSaved(StashB1)>>
    /\ getJsonFiles(folder)[calls["c1"].filename] = WithoutUndefined(StashA1)

\* The credential of a login is the password of the stash, with no OTP.
PasswordAlone(call, stash) ==
    /\ stash.k = "object"
    /\ Get(stash, passwordKey).k = "string"
    /\ Get(call.arg, passwordKey) = Get(stash, passwordKey)
    /\ Get(call.arg, otpOption) = Undefined

\* C19: a login that presents the password of the stash found and no OTP
\* settles with success when the stash has no OTP factor, and with
\* OtpError when it has one.
C19_OtpOverlay ==
    [][\A c \in Calls :
          (calls'[c].op = "login" /\ Settles(c)
              /\ PasswordAlone(calls'[c], StashOf(calls'[c])))
          => IF IsNullish(Get(StashOf(calls'[c]), otpKeyKey))
             THEN calls'[c].pc = "resolved"
             ELSE calls'[c].pc = "rejected" /\ calls'[c].error = OtpError]_vars

C19_Witness ==
    \E c \in Calls :
        /\ calls[c].op = "login"
        /\ calls[c].pc = "rejected"
        /\ calls[c].error = OtpError
        /\ StashOf(calls[c]) = StashO2
        /\ PasswordAlone(calls[c], StashO2)

\* The case of C19 without an OTP factor: the login resolves.
C19_WitnessPasswordOnly ==
    \E c \in Calls :
        /\ calls[c].op = "login"
        /\ calls[c].pc = "resolved"
        /\ StashOf(calls[c]) = StashP1
        /\ PasswordAlone(calls[c], StashP1)

\* The root stashes of a folder that carry the normalized username.
RootStashesOf(dir, username) ==
    {n \in Carriers(dir, fixUsername(username)) : IsRoot(getJsonFiles(dir)[n])}

\* C20: a login of a username that no root stash of the folder carries
\* settles with UsernameError whatever it presents (or with the error of
\* the storage); a login settles with PasswordError or OtpError only in a
\* step after its lookup, with a root stash that carries the username in
\* hand.
C20_UsernameFirst ==
    [][\A c \in Calls :
          (calls'[c].op = "login" /\ Settles(c))
          => LET username == Get(calls'[c].arg, usernameKey).v
             IN  /\ RootStashesOf(folder, username) = {}
                    => /\ calls'[c].pc = "rejected"
                       /\ calls'[c].error \in {UsernameError, StorageError}
                 /\ calls'[c].error \in {PasswordError, OtpError}
                    => /\ calls[c].pc \in {"factor", "otp"}
                       /\ calls[c].filename \in RootStashesOf(folder, username)]_vars

C20_Witness ==
    \E c \in Calls :
        /\ calls[c].op = "login"
        /\ calls[c].pc = "rejected"
        /\ calls[c].error = UsernameError
        /\ folder = LoginFolder
        /\ Kept(calls[c].files) = DOMAIN folder
        /\ Get(calls[c].arg, passwordKey) = Str(<<"p">>)
        /\ Get(calls[c].arg, otpOption) = Str(<<"k">>)

\* C21: the step that completes the delete of a removeStash, any other call
\* being in flight, removes a file whose content at that moment carries the
\* normalized username of the call.
C21_DeletesOnlyItsUsername ==
    [][\A c \in Slots :
          (calls[c].op = "removeStash" /\ calls[c].pc = "delete"
              /\ calls'[c].pc = "deleted" /\ calls[c].filename \in DOMAIN folder)
          => calls[c].filename
                \in Carriers(folder, fixUsername(calls[c].arg.v))]_vars

\* What holds of the code: the file deleted carried the username when the
\* call read it.
C21_DeletesWhatItRead ==
    [][\A c \in Slots :
          (calls[c].op = "removeStash" /\ calls[c].pc = "delete"
              /\ calls'[c].pc = "deleted")
          => /\ calls[c].filename \in Kept(calls[c].files)
             /\ Get(calls[c].files[calls[c].filename].json, usernameKey)
                   = Str(fixUsername(calls[c].arg.v))
             /\ folder' = delete(folder, calls[c].filename)]_vars

\* A removeStash has deleted the file of its username while a saveStash of
\* the same file is in flight.
C21_Witness ==
    \E c, d \in Slots :
        /\ calls[c].op = "removeStash" /\ calls[c].pc = "deleted"
        /\ calls[c].filename # <<>>
        /\ calls[d].op = "saveStash" /\ calls[d].pc = "setText"
        /\ calls[d].filename = calls[c].filename
        /\ calls[c].filename \notin DOMAIN folder

\* The payload of the last LOGIN_STASH_SAVED event of a loginId.
LastSaved(loginId) ==
    LET saved == {i \in DOMAIN events :
                     /\ events[i].type = "LOGIN_STASH_SAVED"
                     /\ LoginIdOf(events[i].payload) = loginId}
        last  == CHOOSE i \in saved : \A j \in saved : j <= i
    IN  events[last].payload

\* Calls c and d are two saveStash calls of one loginId, in flight at once
\* and both resolved.
BothSaved(c, d) ==
    /\ c # d
    /\ calls[c].op = "saveStash" /\ calls[d].op = "saveStash"
    /\ calls[c].pc = "resolved" /\ calls[d].pc = "resolved"
    /\ LoginIdOf(calls[c].arg) = LoginIdOf(calls[d].arg)

\* C22: once two saveStash calls of one loginId, in flight at once, have
\* both resolved, the file of the loginId holds the record of the last
\* LOGIN_STASH_SAVED event of that loginId.
C22_LastEventIsOnDisk ==
    \A c, d \in Slots :
        BothSaved(c, d)
        => /\ calls[c].filename \in DOMAIN getJsonFiles(folder)
           /\ getJsonFiles(folder)[calls[c].filename]
                 = WithoutUndefined(LastSaved(LoginIdOf(calls[c].arg)))

\* The case of C22 where events and disk do agree: the write that completed
\* last was dispatched last.
C22_Witness ==
    /\ BothSaved("c1", "c2")
    /\ calls["c1"].arg = StashA1
    /\ calls["c2"].arg = StashB1
    /\ events = <<StashSaved(StashA1), StashSaved(StashB1)>>
    /\ getJsonFiles(folder)[calls["c2"].filename] = WithoutUndefined(StashB1)

\* Call c is a saveStash and call d a removeStash of the username of its
\* record, in flight at once and both resolved.
SavedAndRemoved(c, d) ==
    /\ calls[c].op = "saveStash" /\ calls[c].pc = "resolved"
    /\ calls[d].op = "removeStash" /\ calls[d].pc = "resolved"
    /\ UsernameOf(calls[c].arg) = Str(fixUsername(calls[d].arg.v))

\* C23: once a saveStash and a removeStash of the username of its record,
\* in flight at once, have both resolved, the file of the record exists
\* exactly when the last event dispatched is the LOGIN_STASH_SAVED of the
\* record.
C23_LastEventTellsTheFile ==
    \A c, d \in Slots :
        SavedAndRemoved(c, d)
        => (calls[c].filename \in DOMAIN folder
               <=> events[Len(events)] = StashSaved(calls[c].arg))

\* The case of C23 where events and disk do agree: the removeStash has read
\* the file the saveStash wrote and deleted it, and has dispatched last.
C23_Witness ==
    \E c, d \in Slots :
        /\ SavedAndRemoved(c, d)
        /\ calls[d].filename = calls[c].filename
        /\ calls[c].filename \notin DOMAIN folder
        /\ Len(events) >= 2
        /\ events[Len(events) - 1] = StashSaved(calls[c].arg)
        /\ events[Len(events)] = DeletedEvent(calls[d].arg.v)

\* The read of file n by call c fails in this step: the file is there and
\* its text is JSON, and the read yields nothing.
ReadFails(c, n) ==
    /\ n \in DOMAIN calls[c].files
    /\ calls[c].files[n].st = "pending"
    /\ n \in DOMAIN calls'[c].files
    /\ calls'[c].files[n].st # "pending"
    /\ n \in DOMAIN getJsonFiles(folder)
    /\ n \notin Kept(calls'[c].files)

\* C24: the step in which the read of one file fails leaves that file out
\* and nothing else: the call is still enumerating, without an error, the
\* result of every other read is as it was, and every read still pending
\* is still pending; every read that completes on a file of JSON text
\* yields that file with its json; and no step of a call with a read
\* pending ends its enumeration.
C24_ReadIsolation ==
    [][\A c \in Calls :
        /\ (calls[c].pc = "getText" /\ StepOf(c)
               /\ \E n \in DOMAIN calls[c].files :
                     calls[c].files[n].st = "pending")
           => /\ calls'[c].pc = "getText"
              /\ calls'[c].error = NoError
        /\ \A n \in DOMAIN calls[c].files :
             /\ ReadFails(c, n)
                => /\ calls'[c].pc = "getText"
                   /\ calls'[c].error = NoError
                   /\ DOMAIN calls'[c].files = DOMAIN calls[c].files
                   /\ \A m \in (DOMAIN calls[c].files) \ {n} :
                         calls'[c].files[m] = calls[c].files[m]
             /\ (calls[c].files[n].st = "pending" /\ StepOf(c)
                    /\ n \in Kept(calls'[c].files))
                => /\ n \in DOMAIN getJsonFiles(folder)
                   /\ calls'[c].files[n].json = getJsonFiles(folder)[n]]_vars

\* A removeStash has resolved after the read of one stash file failed: it
\* has deleted another stash file, and the one it could not read is still
\* there.
C24_Witness ==
    \E c \in Calls :
        /\ calls[c].op = "removeStash"
        /\ calls[c].pc = "resolved"
        /\ calls[c].filename # <<>>
        /\ calls[c].filename \notin DOMAIN folder
        /\ \E n \in StashFiles(folder) :
              /\ n \in DOMAIN calls[c].files
              /\ n \notin Kept(calls[c].files)

\* The files that were in the folder before the store wrote any.
ForeignNames == UNION {DOMAIN dir : dir \in InitialFolders}

\* C25: in every state, every file of the folder that the store has
\* written holds a record whose appId is '', whose username is present and
\* whose loginId decodes to 32 bytes, under the name base58 of those bytes
\* plus ".json".
C25_WrittenFilesAreRootStashes ==
    \A n \in (DOMAIN folder) \ ForeignNames :
        LET r == JSON_parse(folder[n])
        IN  /\ r.ok
            /\ r.value.k = "object"
            /\ Get(r.value, appIdKey) = Str(<<>>)
            /\ ~IsNullish(UsernameOf(r.value))
            /\ LoginIdOf(r.value).k = "string"
            /\ Len(base64_parse(LoginIdOf(r.value).v)) = 32
            /\ n = base58_stringify(base64_parse(LoginIdOf(r.value).v))
                      \o DotJson

\* Two files written by the store next to a file it did not write, after a
\* call that failed validation.
C25_Witness ==
    /\ Cardinality((DOMAIN folder) \ ForeignNames) = 2
    /\ (DOMAIN folder) \cap ForeignNames # {}
    /\ \E c \in Calls : calls[c].op = "saveStash" /\ calls[c].pc = "thrown"

\* C26: no step of a saveStash removes or changes a file other than the
\* one addressed by the loginId of its record, or adds another; a saveStash
\* that throws changes no file at all.
C26_FrameOfSave ==
    [][\A c \in Calls :
          (StepOf(c) /\ calls'[c].op = "saveStash")
          => IF saveStashError(calls'[c].arg) # NoError THEN folder' = folder
             ELSE LET name == base58_stringify(
                                  base64_parse(LoginIdOf(calls'[c].arg).v))
                                  \o DotJson
                  IN  /\ DOMAIN folder' \subseteq (DOMAIN folder) \cup {name}
                      /\ \A n \in (DOMAIN folder) \ {name} :
                            /\ n \in DOMAIN folder'
                            /\ folder'[n] = folder[n]]_vars

\* A record has been written next to the file of another loginId that
\* carries the same username, and next to a file the store did not write.
C26_Witness ==
    \E c \in Calls :
        /\ calls[c].op = "saveStash"
        /\ calls[c].pc = "written"
        /\ calls[c].arg = StashA2
        /\ Carriers(folder, <<"a">>)
              = {saveStashFilename(StashA1), saveStashFilename(StashA2)}
        /\ (DOMAIN folder) \cap ForeignNames # {}

\* The order of the validation rules.
RuleOrder ==
    <<AppIdNotRoot, MissingLoginId, MissingUsername, InvalidLoginIdLength>>

\* The rules a record violates, by their place in the order, as the data
\* model states them: not a root; loginId absent; username absent or null;
\* loginId text that does not decode to 32 bytes.
ViolatedAsStated(stashTree) ==
    {i \in 1..4 :
        \/ i = 1 /\ ~IsRoot(stashTree)
        \/ i = 2 /\ IsNullish(LoginIdOf(stashTree))
        \/ i = 3 /\ IsNullish(UsernameOf(stashTree))
        \/ i = 4 /\ LoginIdOf(stashTree).k = "string"
                 /\ Len(base64_parse(LoginIdOf(stashTree).v)) # 32}

\* The same, with the empty loginId text counted as a missing loginId.
Violated(stashTree) ==
    ViolatedAsStated(stashTree)
        \cup {i \in {2} : LoginIdOf(stashTree) = Str(<<>>)}

FirstOf(rules) == CHOOSE i \in rules : \A j \in rules : i <= j

\* C27 as stated: a saveStash of a record that violates several rules
\* throws the error of the first of them in the order, an empty loginId
\* text being a loginId of the wrong length.
C27_FirstFailingRuleAsStated ==
    [][\A c \in Calls :
          (SaveCalled(c)
              /\ Cardinality(ViolatedAsStated(calls'[c].arg)) >= 2)
          => /\ calls'[c].pc = "thrown"
             /\ calls'[c].error
                   = RuleOrder[FirstOf(ViolatedAsStated(calls'[c].arg))]]_vars

\* C27, amended: a saveStash of a record that violates several rules
\* throws the error of the first of them in the order AppIdNotRoot,
\* MissingLoginId, MissingUsername, InvalidLoginIdLength, where a loginId
\* that is the empty text violates the second rule.
C27_FirstFailingRule ==
    [][\A c \in Calls :
          (StepOf(c) /\ calls'[c].op = "saveStash"
              /\ Cardinality(Violated(calls'[c].arg)) >= 2)
          => /\ calls'[c].pc = "thrown"
             /\ calls'[c].error
                   = RuleOrder[FirstOf(Violated(calls'[c].arg))]
             /\ folder' = folder
             /\ events' = events]_vars

\* A root record with neither loginId nor username has been answered with
\* the missing-loginId error.
C27_Witness ==
    \E c \in Calls :
        /\ calls[c].op = "saveStash"
        /\ calls[c].pc = "thrown"
        /\ calls[c].error = MissingLoginId
        /\ IsRoot(calls[c].arg)
        /\ LoginIdOf(calls[c].arg) = Undefined
        /\ UsernameOf(calls[c].arg) = Undefined

\* C28: a step of a removeStash whose delete has been issued and that
\* leaves the matched file in the folder rejects the call with the storage
\* error; a step of a removeStash whose listing has been issued and that
\* does not hand it the names of the folder rejects it with the storage
\* error; neither changes the folder or dispatches an event, and a
\* rejected removeStash goes back to its caller without either.
C28_RemoveFailure ==
    [][\A c \in Calls :
          (StepOf(c) /\ calls[c].op = "removeStash")
          => /\ (calls[c].pc = "delete"
                    /\ calls[c].filename \in DOMAIN folder')
                => /\ calls'[c].pc = "rejected"
                   /\ calls'[c].error = StorageError
                   /\ folder' = folder
                   /\ events' = events
             /\ (calls[c].pc = "listFiles" /\ calls'[c].pc # "getText")
                => /\ calls'[c].pc = "rejected"
                   /\ calls'[c].error = StorageError
                   /\ calls'[c].files = <<>>
                   /\ folder' = folder
                   /\ events' = events
             /\ calls[c].pc = "rejected"
                => /\ calls'[c] = Idle
                   /\ folder' = folder
                   /\ events' = events]_vars

\* A removeStash has been rejected by the failure of the delete of the
\* file it matched: the file is still there and the last event, if any, is
\* not the call's.
C28_Witness ==
    \E c \in Calls :
        /\ calls[c].op = "removeStash"
        /\ calls[c].pc = "rejected"
        /\ calls[c].error = StorageError
        /\ calls[c].filename \in DOMAIN folder
        /\ events # <<>>
        /\ events[Len(events)].type = "LOGIN_STASH_SAVED"

====
